---- MODULE Spec2Model ----
(***************************************************************************)
(* Model of BinarySearchTree.ts: a binary search tree of comparable        *)
(* payloads with add, remove, contains, height, size and isEmpty.          *)
(*                                                                         *)
(* A node is a record [data, left, right]; an absent node (null) is Null.  *)
(* The tree owns its nodes exclusively (no aliasing), so the in-place      *)
(* updates of the recursive methods are modelled as the tree value they    *)
(* leave behind.                                                           *)
(***************************************************************************)
EXTENDS Integers, Sequences, FiniteSets

\* Payloads are the numbers 1..MaxVal.
MaxVal == 4
\* Longest recorded sequence of add/remove calls on a tree that starts empty.
MaxOps == 3
\* Longest recorded sequence of add/remove calls on a tree drawn from AllBSTs.
MaxTreeOps == 1

Values == 1..MaxVal

VARIABLES
    root,       \* _root: the top node, Null when absent
    nodeCount,  \* _nodeCount
    hist,       \* the add/remove calls made so far: <<[op, arg, ret], ...>>
    last,       \* the last public call and what it returned
    pre         \* root and nodeCount as they were when the last call began

vars == <<root, nodeCount, hist, last, pre>>

----------------------------------------------------------------------------
\* Nodes

Null == [null |-> TRUE]

Node(d, l, r) == [data |-> d, left |-> l, right |-> r]

\* Number of nodes reachable from node.
RECURSIVE Size(_)
Size(node) ==
    IF node = Null THEN 0 ELSE 1 + Size(node.left) + Size(node.right)

\* Payloads of the nodes reachable from node, left to right.
RECURSIVE Inorder(_)
Inorder(node) ==
    IF node = Null THEN <<>>
    ELSE Inorder(node.left) \o <<node.data>> \o Inorder(node.right)

Payloads(node) == {Inorder(node)[i] : i \in 1..Len(Inorder(node))}

\* Every payload on the left of a node is less, every payload on its right greater.
RECURSIVE IsBST(_)
IsBST(node) ==
    \/ node = Null
    \/ /\ \A x \in Payloads(node.left) : x < node.data
       /\ \A x \in Payloads(node.right) : x > node.data
       /\ IsBST(node.left)
       /\ IsBST(node.right)

\* All binary search trees whose payloads are exactly the set S.
RECURSIVE BSTs(_)
BSTs(S) ==
    IF S = {} THEN {Null}
    ELSE UNION {{Node(d, l, r) : l \in BSTs({x \in S : x < d}),
                                 r \in BSTs({x \in S : x > d})} : d \in S}

AllBSTs == UNION {BSTs(S) : S \in SUBSET Values}

----------------------------------------------------------------------------
\* The methods

\* The null branch declares a new block-scoped const node and drops it; the
\* parameter node, still null, is what is returned.
RECURSIVE recursiveAdd(_, _)
recursiveAdd(node, elem) ==
    IF node = Null THEN node
    ELSE IF elem = node.data
         THEN [node EXCEPT !.left = recursiveAdd(node.left, elem)]
         ELSE [node EXCEPT !.right = recursiveAdd(node.right, elem)]

\* findMin without its loop: the right child itself, not its leftmost descendant.
findMinNoLoop(node) == node

RECURSIVE findMin(_)
findMin(node) ==
    IF node.left # Null THEN findMin(node.left) ELSE node

RECURSIVE findMax(_)
findMax(node) ==
    IF node.right # Null THEN findMax(node.right) ELSE node

RECURSIVE recursiveRemove(_, _)
recursiveRemove(node, elem) ==
    IF node = Null THEN Null
    ELSE IF elem < node.data
         THEN [node EXCEPT !.left = recursiveRemove(node.left, elem)]
    ELSE IF elem > node.data
         THEN [node EXCEPT !.right = recursiveRemove(node.right, elem)]
    ELSE IF node.left = Null THEN node.right
    ELSE IF node.right = Null THEN node.left
    ELSE LET tmp == findMin(node.right)
         IN  Node(tmp.data, node.left, recursiveRemove(node.right, tmp.data))

\* recursiveContains that gives up instead of descending right.
RECURSIVE recursiveContainsNoRight(_, _)
recursiveContainsNoRight(node, elem) ==
    IF node = Null THEN FALSE
    ELSE IF elem < node.data THEN recursiveContainsNoRight(node.left, elem)
    ELSE IF elem > node.data THEN FALSE
    ELSE TRUE

RECURSIVE recursiveContains(_, _)
recursiveContains(node, elem) ==
    IF node = Null THEN FALSE
    ELSE IF elem < node.data THEN recursiveContains(node.left, elem)
    ELSE IF elem > node.data THEN recursiveContains(node.right, elem)
    ELSE TRUE

contains(elem) == recursiveContains(root, elem)

RECURSIVE recursiveHeight(_)
recursiveHeight(node) ==
    IF node = Null THEN 0
    ELSE LET l == recursiveHeight(node.left)
             r == recursiveHeight(node.right)
         IN  (IF l >= r THEN l ELSE r) + 1

height == recursiveHeight(root)

size == nodeCount

isEmpty == size = 0

----------------------------------------------------------------------------
\* The public calls

Call(op, arg, ret) == [op |-> op, arg |-> arg, ret |-> ret]

Snapshot == [root |-> root, nodeCount |-> nodeCount]

add(elem, bound) ==
    /\ Len(hist) < bound
    /\ pre' = Snapshot
    /\ IF contains(elem)
       THEN /\ UNCHANGED <<root, nodeCount>>
            /\ last' = Call("add", elem, FALSE)
       ELSE /\ root' = recursiveAdd(root, elem)
            /\ nodeCount' = nodeCount + 1
            /\ last' = Call("add", elem, TRUE)
    /\ hist' = Append(hist, last')

\* remove without its contains guard.
removeUnchecked(elem, bound) ==
    /\ Len(hist) < bound
    /\ pre' = Snapshot
    /\ root' = recursiveRemove(root, elem)
    /\ nodeCount' = nodeCount - 1
    /\ last' = Call("remove", elem, contains(elem))
    /\ hist' = Append(hist, last')

remove(elem, bound) ==
    /\ Len(hist) < bound
    /\ pre' = Snapshot
    /\ IF contains(elem)
       THEN /\ root' = recursiveRemove(root, elem)
            /\ nodeCount' = nodeCount - 1
            /\ last' = Call("remove", elem, TRUE)
       ELSE /\ UNCHANGED <<root, nodeCount>>
            /\ last' = Call("remove", elem, FALSE)
    /\ hist' = Append(hist, last')

callContains(elem) ==
    /\ pre' = Snapshot
    /\ last' = Call("contains", elem, contains(elem))
    /\ UNCHANGED <<root, nodeCount, hist>>

callHeight ==
    /\ pre' = Snapshot
    /\ last' = Call("height", "none", height)
    /\ UNCHANGED <<root, nodeCount, hist>>

callSize ==
    /\ pre' = Snapshot
    /\ last' = Call("size", "none", size)
    /\ UNCHANGED <<root, nodeCount, hist>>

callIsEmpty ==
    /\ pre' = Snapshot
    /\ last' = Call("isEmpty", "none", isEmpty)
    /\ UNCHANGED <<root, nodeCount, hist>>

Queries ==
    \/ \E elem \in Values : callContains(elem)
    \/ callHeight
    \/ callSize
    \/ callIsEmpty

----------------------------------------------------------------------------
\* A tree as constructed: empty.

Init ==
    /\ root = Null
    /\ nodeCount = 0
    /\ hist = <<>>
    /\ last = Call("new", "none", "none")
    /\ pre = [root |-> Null, nodeCount |-> 0]

Next ==
    \/ \E elem \in Values : add(elem, MaxOps)
    \/ \E elem \in Values : remove(elem, MaxOps)
    \/ Queries

Spec == Init /\ [][Next]_vars

\* The methods applied to every binary search tree over Values, with the node
\* count such a tree would have.

InitTree ==
    /\ root \in AllBSTs
    /\ nodeCount = Size(root)
    /\ hist = <<>>
    /\ last = Call("new", "none", "none")
    /\ pre = [root |-> root, nodeCount |-> nodeCount]

NextTree ==
    \/ \E elem \in Values : add(elem, MaxTreeOps)
    \/ \E elem \in Values : remove(elem, MaxTreeOps)
    \/ Queries

SpecTree == InitTree /\ [][NextTree]_vars

----------------------------------------------------------------------------
\* What the recorded calls say

Front(h) == SubSeq(h, 1, Len(h) - 1)

\* The values a successful add put in and no remove call has named since.
RECURSIVE StoredAfter(_)
StoredAfter(h) ==
    IF h = <<>> THEN {}
    ELSE LET e == h[Len(h)]
             s == StoredAfter(Front(h))
         IN  IF e.op = "add" /\ e.ret THEN s \cup {e.arg}
             ELSE IF e.op = "remove" THEN s \ {e.arg}
             ELSE s

\* The stored values when the last add or remove call began.
StoredBefore == StoredAfter(Front(hist))

Args(h) == {h[i].arg : i \in 1..Len(h)}

OnlyAdds(h) == \A i \in 1..Len(h) : h[i].op = "add"

OnlyRemoves(h) == \A i \in 1..Len(h) : h[i].op = "remove"

Distinct(h) == \A i, j \in 1..Len(h) : i # j => h[i].arg # h[j].arg

Increasing(h) == \A i, j \in 1..Len(h) : i < j => h[i].arg < h[j].arg

NoDuplicates(node) == Len(Inorder(node)) = Cardinality(Payloads(node))

Without(seq, v) == SelectSeq(seq, LAMBDA x : x # v)

MinOf(S) == CHOOSE x \in S : \A y \in S : x <= y

\* The path ("L"/"R" steps) from node down to the node holding elem.
RECURSIVE PathTo(_, _)
PathTo(node, elem) ==
    IF elem < node.data THEN <<"L">> \o PathTo(node.left, elem)
    ELSE IF elem > node.data THEN <<"R">> \o PathTo(node.right, elem)
    ELSE <<>>

RECURSIVE At(_, _)
At(node, path) ==
    IF path = <<>> THEN node
    ELSE At(IF Head(path) = "L" THEN node.left ELSE node.right, Tail(path))

----------------------------------------------------------------------------
\* C1: from an empty tree, after add calls on pairwise distinct values,
\* contains(v) is true for every value added and size() is the number of
\* values added.
C1_AddedAreContained ==
    (OnlyAdds(hist) /\ Distinct(hist)) =>
        /\ \A v \in Args(hist) : contains(v)
        /\ size = Cardinality(Args(hist))

\* C2: add(v) of a value added earlier and not removed since returns false
\* and leaves size(), root and all nodes as they were; no value is held by
\* two nodes.
C2_DuplicateAddRejected ==
    /\ NoDuplicates(root)
    /\ (last.op = "add" /\ last.arg \in StoredBefore) =>
           /\ last.ret = FALSE
           /\ nodeCount = pre.nodeCount
           /\ root = pre.root

\* C3: remove(v) of a stored value returns true, takes one off size(), makes
\* contains(v) false and keeps contains(w) true for every other stored w.
C3_RemoveStored ==
    (last.op = "remove" /\ last.arg \in StoredBefore) =>
        /\ last.ret = TRUE
        /\ nodeCount = pre.nodeCount - 1
        /\ ~contains(last.arg)
        /\ \A w \in StoredBefore \ {last.arg} : contains(w)

\* C4: remove(v) of a value no node holds returns false and leaves root, every
\* node (payloads and child links) and nodeCount as they were.
C4_RemoveAbsentIsNoOp ==
    (last.op = "remove" /\ last.arg \notin Payloads(pre.root)) =>
        /\ last.ret = FALSE
        /\ root = pre.root
        /\ nodeCount = pre.nodeCount

\* C4 witness: remove was called on a non-empty tree with a value it lacks.
C4_Witness ==
    /\ last.op = "remove"
    /\ last.arg \notin Payloads(pre.root)
    /\ pre.nodeCount > 0

\* C5: nodeCount is the number of nodes reachable from root, and it is 0
\* (isEmpty() true) exactly when root is absent.
C5_CountMatchesNodes ==
    /\ nodeCount = Size(root)
    /\ (nodeCount = 0) <=> (root = Null)
    /\ isEmpty <=> (root = Null)

\* C6: height() is 0 for the empty tree, 1 after a single add, n after n adds
\* of strictly increasing values, and in general 1 + the larger of the
\* children's heights (an absent child counting 0).
C6_Height ==
    /\ hist = <<>> => height = 0
    /\ (Len(hist) = 1 /\ OnlyAdds(hist)) => height = 1
    /\ (OnlyAdds(hist) /\ Increasing(hist)) => height = Len(hist)
    /\ root # Null =>
           \/ /\ height = 1 + recursiveHeight(root.left)
              /\ recursiveHeight(root.left) >= recursiveHeight(root.right)
           \/ /\ height = 1 + recursiveHeight(root.right)
              /\ recursiveHeight(root.right) >= recursiveHeight(root.left)

\* C7: adding every value of a set S to an empty tree and then calling remove
\* on every value of S, in any order, ends with isEmpty() true, size() 0 and
\* root absent.
C7_RoundTrip ==
    \A k \in 0..Len(hist) :
        LET adds == SubSeq(hist, 1, k)
            removes == SubSeq(hist, k + 1, Len(hist))
        IN  (/\ OnlyAdds(adds)
             /\ OnlyRemoves(removes)
             /\ Args(removes) = Args(adds)) =>
                /\ isEmpty
                /\ size = 0
                /\ root = Null

\* C8: the tree is always a valid binary search tree, and every add or remove
\* either applies in full (the value joins or leaves the tree, the ordering
\* kept) or fails and leaves the tree as it was.
C8_ValidAndAtomic ==
    /\ IsBST(root)
    /\ last.op = "add" =>
           \/ /\ last.ret = TRUE
              /\ Payloads(root) = Payloads(pre.root) \cup {last.arg}
              /\ last.arg \notin Payloads(pre.root)
           \/ /\ last.ret = FALSE
              /\ root = pre.root
              /\ nodeCount = pre.nodeCount
    /\ last.op = "remove" =>
           \/ /\ last.ret = TRUE
              /\ Payloads(root) = Payloads(pre.root) \ {last.arg}
              /\ last.arg \in Payloads(pre.root)
           \/ /\ last.ret = FALSE
              /\ root = pre.root
              /\ nodeCount = pre.nodeCount

\* The last call removed a value whose node had both children.
RemovedTwoChildNode ==
    /\ last.op = "remove"
    /\ last.ret = TRUE
    /\ At(pre.root, PathTo(pre.root, last.arg)).left # Null
    /\ At(pre.root, PathTo(pre.root, last.arg)).right # Null

\* C9: removing, from a valid binary search tree, a value whose node has both
\* children puts the least payload of the node's right subtree in that node,
\* takes that payload out of the right subtree, and leaves the in-order
\* sequence as it was but for the removed value.
C9_TwoChildRemoval ==
    (IsBST(pre.root) /\ RemovedTwoChildNode) =>
        LET path == PathTo(pre.root, last.arg)
            old == At(pre.root, path)
            new == At(root, path)
            least == MinOf(Payloads(old.right))
        IN  /\ new.data = least
            /\ new.left = old.left
            /\ Inorder(new.right) = Without(Inorder(old.right), least)
            /\ Inorder(root) = Without(Inorder(pre.root), last.arg)
            /\ Len(Inorder(root)) = Len(Inorder(pre.root)) - 1
            /\ NoDuplicates(root)
            /\ IsBST(root)

\* C9 witness: such a removal, where the least node of the right subtree lies
\* below the right child.
C9_Witness ==
    /\ IsBST(pre.root)
    /\ RemovedTwoChildNode
    /\ At(pre.root, PathTo(pre.root, last.arg)).right.left # Null

\* C10: on a tree in binary-search order contains(v) is true exactly when some
\* reachable node holds v, and a contains call leaves root, the nodes and
\* nodeCount as they were.
C10_ContainsIffHeld ==
    IsBST(root) =>
        /\ \A v \in Values : contains(v) <=> v \in Payloads(root)
        /\ last.op = "contains" =>
               /\ last.ret = (last.arg \in Payloads(pre.root))
               /\ root = pre.root
               /\ nodeCount = pre.nodeCount

\* C10 witness: a contains call that found its value below the root, to the
\* right of some node.
C10_Witness ==
    /\ last.op = "contains"
    /\ last.ret = TRUE
    /\ IsBST(root)
    /\ "R" \in {PathTo(root, last.arg)[i] : i \in 1..Len(PathTo(root, last.arg))}

====
